---- MODULE Spec2Model ----
(***************************************************************************)
(* A model of the dual-protocol (REST + GraphQL) user-lookup service:      *)
(* the singleton Express application and its middleware stack (App.ts),    *)
(* the bootstrap that mounts /graphql (index.ts), the admission filter     *)
(* (domainRestriction.ts), the REST route (userRoutes.ts), the GraphQL     *)
(* resolver (resolvers.ts), the error normalizer (errorHandler.ts) and the *)
(* lookup service (userService.ts).                                        *)
(*                                                                         *)
(* Header values, ids and messages are TLA+ strings; the string functions  *)
(* of the code (===, endsWith, includes, startsWith, trim, template        *)
(* literals) are computed character by character with Len, SubSeq and \o.  *)
(***************************************************************************)
EXTENDS Integers, Sequences, FiniteSets, TLC

VARIABLES
    store,      \* the persisted User rows: a set of [id, name]
    listed,     \* what the last call of UserService.findAll() yielded
    seed,       \* the runs of prisma/seed.ts: per run its position and outstanding creates
    swaggerOk,  \* whether YAML.load('swagger.yaml') succeeds in this process
    instance,   \* App.instance: "undefined" or the App object it holds
    constructed,\* how many times the App constructor has run
    handle,     \* this._app of the App: "undefined" or the Express object it holds
    calls,      \* how many times App.getInstance() has been called
    returned,   \* the App objects App.getInstance() has returned
    seen,       \* what the app accessor has returned: the Express object and when it was read
    stack,      \* the Express handle's layer stack, in registration order
    boot,       \* position of bootstrap() in index.ts
    exitCode,   \* the exit code of the server process, -1 while it runs
    listening,  \* whether the HTTP server accepts requests
    now,        \* logical clock: the number of requests received so far
    reqs        \* the requests in flight, one per connection slot

vars ==
    <<store, listed, seed, swaggerOk, exitCode, instance, constructed, handle, calls,
      returned, seen, stack, boot, listening, now, reqs>>

\* ---------------------------------------------------------------- bounds

\* How many requests the server receives in one run.
MaxRequests == 2

\* How many times App.getInstance() is called in one run.
MaxCalls == 3

\* ------------------------------------------------------- string functions

\* host.endsWith(suffix)
EndsWith(s, suffix) ==
    /\ Len(suffix) <= Len(s)
    /\ SubSeq(s, Len(s) - Len(suffix) + 1, Len(s)) = suffix

\* referer.startsWith(prefix)
StartsWith(s, prefix) ==
    /\ Len(prefix) <= Len(s)
    /\ SubSeq(s, 1, Len(prefix)) = prefix

\* origin.includes(part)
Includes(s, part) ==
    \E i \in 1..(Len(s) - Len(part) + 1) : SubSeq(s, i, i + Len(part) - 1) = part

\* The characters String.prototype.trim removes (those the inputs use).
WhiteSpace == {" ", "\t", "\n"}

RECURSIVE TrimStart(_)
TrimStart(s) ==
    IF Len(s) > 0 /\ SubSeq(s, 1, 1) \in WhiteSpace
    THEN TrimStart(SubSeq(s, 2, Len(s)))
    ELSE s

RECURSIVE TrimEnd(_)
TrimEnd(s) ==
    IF Len(s) > 0 /\ SubSeq(s, Len(s), Len(s)) \in WhiteSpace
    THEN TrimEnd(SubSeq(s, 1, Len(s) - 1))
    ELSE s

\* id.trim()
Trim(s) == TrimEnd(TrimStart(s))

\* ------------------------------------------------------ admission filter

\* const allowedHosts = [...]
allowedHosts == {"example.com", "www.example.com", "localhost:3000", "127.0.0.1:3000"}

\* allowedHosts.some(allowed => host === allowed || host.endsWith(`.${allowed}`))
isAllowedHost(host) ==
    \E allowed \in allowedHosts : host = allowed \/ EndsWith(host, "." \o allowed)

\* Faulty variant: the Origin must equal http(s)://<entry>; the substring test is dropped.
isAllowedOrigin_exact(origin) ==
    \E allowed \in {"example.com", "www.example.com", "localhost:3000", "127.0.0.1:3000"} :
        origin = "http://" \o allowed \/ origin = "https://" \o allowed

\* allowedHosts.some(allowed => origin.includes(allowed) || origin === `http://${allowed}`
\*                              || origin === `https://${allowed}`)
isAllowedOrigin(origin) ==
    \E allowed \in allowedHosts :
        \/ Includes(origin, allowed)
        \/ origin = "http://" \o allowed
        \/ origin = "https://" \o allowed

\* allowedHosts.some(allowed => referer.includes(allowed) || referer.startsWith(...))
isAllowedReferer(referer) ==
    \E allowed \in allowedHosts :
        \/ Includes(referer, allowed)
        \/ StartsWith(referer, "http://" \o allowed)
        \/ StartsWith(referer, "https://" \o allowed)

\* if (isAllowedHost || isAllowedOrigin || isAllowedReferer)
Admits(host, origin, referer) ==
    isAllowedHost(host) \/ isAllowedOrigin(origin) \/ isAllowedReferer(referer)

\* ------------------------------------------------------------ JS values

\* A JavaScript value that may be undefined, a string or a number: its type
\* tag and its text.
Undefined == [t |-> "undefined", s |-> ""]
Str(s) == [t |-> "string", s |-> s]
Num(s) == [t |-> "number", s |-> s]

\* !v is false: undefined, '' and 0 are falsy.
Truthy(v) ==
    \/ v.t = "string" /\ v.s # ""
    \/ v.t = "number" /\ v.s # "0"


\* Faulty variant: an absent header defaults to the local host.
OrEmpty_localhost(v) == IF Truthy(v) THEN v.s ELSE "localhost:3000"

\* req.headers.x || ''
OrEmpty(v) == IF Truthy(v) THEN v.s ELSE ""

\* Faulty variant: the id is not trimmed before its length is tested.
InvalidId_noTrim(id) ==
    \/ ~Truthy(id)
    \/ id.t # "string"

\* !id || typeof id !== 'string' || id.trim().length === 0
InvalidId(id) ==
    \/ ~Truthy(id)
    \/ id.t # "string"
    \/ Len(Trim(id.s)) = 0

\* ---------------------------------------------------------------- errors

NoError == [cls |-> "none", name |-> "", message |-> "", statusCode |-> 0]

\* class ApiError extends Error { constructor(statusCode, message) { this.name = 'ApiError' } }
ApiError(statusCode, message) ==
    [cls |-> "ApiError", name |-> "ApiError", message |-> message, statusCode |-> statusCode]

\* new Error(message)
PlainError(message) ==
    [cls |-> "Error", name |-> "Error", message |-> message, statusCode |-> 0]

\* What express.json() passes to next() for a body it cannot parse: a
\* SyntaxError decorated with statusCode 400 (not an ApiError).
BodyParseError(message) ==
    [cls |-> "SyntaxError", name |-> "SyntaxError", message |-> message, statusCode |-> 400]

\* What the query builder throws when the database cannot be read.
StoreError(message) ==
    [cls |-> "PrismaClientError", name |-> "PrismaClientError", message |-> message,
     statusCode |-> 0]

\* err instanceof ApiError
IsApiError(err) == err.cls = "ApiError"

\* ----------------------------------------------------------------- store

\* The null a lookup answers when no row matches.
Null == [isNull |-> TRUE]

\* The rows of prisma/seed.ts.
SeedUsers ==
    { [id |-> "user1", name |-> "John Doe"],
      [id |-> "user2", name |-> "Jane Smith"],
      [id |-> "user3", name |-> "Bob Wilson"] }

\* The store contents a run may start from: the table before seeding, a
\* partly filled table and the seeded table.
StoreContents ==
    { {}, {[id |-> "user1", name |-> "John Doe"]}, SeedUsers }

\* The messages a failing database read may carry.
StoreFailures ==
    { "SQLITE_CANTOPEN: unable to open database file",
      "Timed out fetching a new connection from the connection pool" }

\* prisma.user.findUnique({ where: { id } }) on a database that answers.
findUnique(rows, id) ==
    IF \E u \in rows : u.id = id
    THEN CHOOSE u \in rows : u.id = id
    ELSE Null


\* Faulty variant: a lookup that misses creates the row (an upsert for a read).
findById_upsert(rows, id, failure) ==
    IF failure # ""
    THEN [threw |-> TRUE, value |-> Null, error |-> StoreError(failure),
          rows |-> rows, trips |-> 1]
    ELSE IF \E u \in rows : u.id = id
    THEN [threw |-> FALSE, value |-> CHOOSE u \in rows : u.id = id, error |-> NoError,
          rows |-> rows, trips |-> 1]
    ELSE [threw |-> FALSE, value |-> [id |-> id, name |-> ""], error |-> NoError,
          rows |-> rows \cup {[id |-> id, name |-> ""]}, trips |-> 2]


\* Faulty variant: findUniqueOrThrow, which rejects when no row matches.
findById_orThrow(rows, id, failure) ==
    IF failure # ""
    THEN [threw |-> TRUE, value |-> Null, error |-> StoreError(failure),
          rows |-> rows, trips |-> 1]
    ELSE IF \E u \in rows : u.id = id
    THEN [threw |-> FALSE, value |-> CHOOSE u \in rows : u.id = id, error |-> NoError,
          rows |-> rows, trips |-> 1]
    ELSE [threw |-> TRUE, value |-> Null, error |-> StoreError("No User found"),
          rows |-> rows, trips |-> 1]

\* UserService.findById(id): what the awaited call yields, a value or a
\* thrown error, given whether the database answers (failure = "" when it does).
\* rows is the table after the call and trips the round trips it made.
findById(rows, id, failure) ==
    IF failure = ""
    THEN [threw |-> FALSE, value |-> findUnique(rows, id), error |-> NoError,
          rows |-> rows, trips |-> 1]
    ELSE [threw |-> TRUE, value |-> Null, error |-> StoreError(failure),
          rows |-> rows, trips |-> 1]

\* UserService.findAll(): prisma.user.findMany(), every row, the table untouched.
findAll(rows, failure) ==
    IF failure = ""
    THEN [threw |-> FALSE, value |-> rows, error |-> NoError, rows |-> rows, trips |-> 1]
    ELSE [threw |-> TRUE, value |-> {}, error |-> StoreError(failure), rows |-> rows,
          trips |-> 1]


\* No call of findAll() has been made yet.
NotListed ==
    [threw |-> FALSE, value |-> {}, error |-> NoError, rows |-> {}, trips |-> 0]


\* ------------------------------------------------------------ the seed run

\* Faulty variant: the table is not cleared before the creates.
deleteMany_skipped(rows) == rows

\* prisma.user.deleteMany(): the table afterwards.
deleteMany(rows) == {}

\* Faulty variant: the id column has no uniqueness constraint.
create_unchecked(rows, data, failure) ==
    IF failure # ""
    THEN [threw |-> TRUE, error |-> StoreError(failure), rows |-> rows]
    ELSE [threw |-> FALSE, error |-> NoError, rows |-> rows \cup {data}]

\* prisma.user.create({ data }): the row is added unless the database cannot
\* be written or a row with that id exists (id is the @id column).
create(rows, data, failure) ==
    IF failure # ""
    THEN [threw |-> TRUE, error |-> StoreError(failure), rows |-> rows]
    ELSE IF \E u \in rows : u.id = data.id
    THEN [threw |-> TRUE,
          error |-> StoreError("Unique constraint failed on the fields: (id)"),
          rows |-> rows]
    ELSE [threw |-> FALSE, error |-> NoError, rows |-> rows \cup {data}]

\* The runs of the seed script that may overlap; a single run is the first.
Seeders == {1, 2}
OneSeeder == {1}

\* A seed run that has not started: pc its position, pending the creates it
\* has issued that have not completed, made the rows its creates added,
\* deleted the number of rows its deleteMany removed, error the failure
\* main() rejected with, dups the creates that succeeded although a row with
\* their id was present, exit the exit code (-1 while the run goes on).
NotSeeding ==
    [pc |-> "idle", pending |-> {}, deleted |-> 0, made |-> {}, error |-> NoError, dups |-> 0,
     exit |-> -1]

\* What a seed run may find in the table: nothing, the seeded rows, or rows
\* of an earlier version of the data (another name for user1, another user).
SeedPriors ==
    StoreContents
    \cup { { [id |-> "user1", name |-> "Johnny"], [id |-> "user9", name |-> "Old User"] },
           { [id |-> "user9", name |-> "Old User"] } }

\* ------------------------------------------------------- the layer stack

Layer(path, method, kind) == [path |-> path, method |-> method, kind |-> kind]

\* Faulty variant: the admission filter is not registered on the application.
MiddlewareLayers_noFilter == << Layer("*", "ANY", "json") >>

\* initializeMiddleware(): json(), then domainRestriction, on every path.
MiddlewareLayers ==
    << Layer("*", "ANY", "json"), Layer("*", "ANY", "domainRestriction") >>


\* Faulty variant: the GET /:id route is registered without validateUserId.
RouteLayers_noValidate(swagger) ==
    (IF swagger THEN << Layer("/api-docs", "ANY", "swaggerUi") >> ELSE << >>)
    \o << Layer("/users/:id", "GET", "getUser"),
          Layer("/health", "GET", "health") >>

\* initializeRoutes(): /api-docs when swagger.yaml loads, the /users router
\* (GET /:id with validateUserId and the lookup handler), GET /health.
RouteLayers(swagger) ==
    (IF swagger THEN << Layer("/api-docs", "ANY", "swaggerUi") >> ELSE << >>)
    \o << Layer("/users/:id", "GET", "validateUserId"),
          Layer("/users/:id", "GET", "getUser"),
          Layer("/health", "GET", "health") >>

\* initializeErrorHandling(): use(errorHandler).
ErrorLayers == << Layer("*", "ANY", "errorHandler") >>

\* The App constructor: express(), then the three initialize steps in order.
AppConstructor(swagger) == MiddlewareLayers \o RouteLayers(swagger) \o ErrorLayers

\* expressApp.use('/graphql', json(), domainRestriction, expressMiddleware(apolloServer))
GraphqlLayers ==
    << Layer("/graphql", "ANY", "json"),
       Layer("/graphql", "ANY", "domainRestriction"),
       Layer("/graphql", "ANY", "apollo") >>

\* Express's layer match: the mount path and the method of the layer.
Matches(layer, q) ==
    /\ layer.path = "*" \/ layer.path = q.path
    /\ layer.method = "ANY" \/ layer.method = q.method

\* Express's dispatch: with an error pending only error handlers run, without
\* one they are skipped.
Handles(layer, q) ==
    /\ Matches(layer, q)
    /\ (q.err = NoError) <=> (layer.kind # "errorHandler")

\* The index of the first layer at or after `from` that handles q, or
\* Len(layers) + 1 (Express's final handler) when none does.
RECURSIVE NextIdx(_, _, _)
NextIdx(layers, q, from) ==
    IF from > Len(layers) THEN Len(layers) + 1
    ELSE IF Handles(layers[from], q) THEN from
    ELSE NextIdx(layers, q, from + 1)

\* -------------------------------------------------------------- requests

\* The connections the server handles at once; a serial client uses the first.
Slots == {1, 2}
Serial == {1}

NoResponse == [status |-> 0, body |-> [none |-> TRUE]]

Idle ==
    [pc |-> "idle", method |-> "GET", path |-> "/", host |-> Undefined,
     origin |-> Undefined, referer |-> Undefined, body |-> "none", id |-> Undefined,
     idx |-> 0, err |-> NoError, bodyParsed |-> FALSE, reads |-> 0, logged |-> << >>,
     ran |-> << >>, sent |-> 0, res |-> NoResponse, at |-> 0, failure |-> "", trips |-> 0]

\* Header values a client may send (Undefined: the header is absent).
HostValues ==
    { Undefined, Str("example.com"), Str("www.example.com"), Str("localhost:3000"),
      Str("127.0.0.1:3000"), Str("api.example.com"), Str("evil.com"),
      Str("notexample.com"), Str("example.com.evil.org") }

OriginValues ==
    { Undefined, Str("http://example.com"), Str("https://notexample.com.evil.org"),
      Str("https://evil.org") }

RefererValues ==
    { Undefined, Str("https://www.example.com/page"),
      Str("https://evil.org/?next=localhost:3000"), Str("https://evil.org/") }

\* The id a GET /users/:id handler chain may find in req.params: the chain
\* guards against a missing and a non-string id as well as a blank one.
RestIds ==
    { Undefined, Num("7"), Str(""), Str(" "), Str(" \t"), Str("user1"), Str("user3"),
      Str("ghost"), Str(" user1") }

\* The id argument of the query user(id: String!): always a string.
GraphqlIds == { Str(""), Str("  "), Str("user1"), Str("user3"), Str("ghost") }

\* The requests a client may send: method, path, body and id.
Calls ==
    { [method |-> "GET", path |-> "/users/:id", body |-> b, id |-> i] :
          b \in {"none", "json", "malformed"}, i \in RestIds }
    \cup { [method |-> "POST", path |-> "/graphql", body |-> b, id |-> i] :
          b \in {"json", "malformed"}, i \in GraphqlIds }
    \cup { [method |-> "GET", path |-> p, body |-> b, id |-> Undefined] :
          p \in {"/health", "/api-docs", "/"}, b \in {"none", "malformed"} }

\* A request as the server first sees it, at time t.
NewRequest(c, host, origin, referer, t) ==
    [Idle EXCEPT !.pc = "run", !.method = c.method, !.path = c.path, !.body = c.body,
                 !.id = c.id, !.host = host, !.origin = origin, !.referer = referer,
                 !.idx = 1, !.at = t]

\* A handler is entered: the request records which handlers ran, in order.
Enter(q, handler) == [q EXCEPT !.ran = Append(@, handler)]

\* next() / next(err): control passes to the next layer that handles the request.
CallNext(q, err) ==
    LET q1 == [q EXCEPT !.pc = "run", !.err = err]
    IN  [q1 EXCEPT !.idx = NextIdx(stack, q1, q.idx + 1)]

\* res.status(status).json(body)
Send(q, status, body) ==
    [q EXCEPT !.pc = "done", !.res = [status |-> status, body |-> body], !.sent = @ + 1]

\* The layer the request is at.
AtLayer(q, kind) ==
    /\ q.pc = "run"
    /\ q.idx \in 1..Len(stack)
    /\ stack[q.idx].kind = kind

\* -------------------------------------------------------------- handlers

\* express.json(): a request without a body, or whose body an earlier json()
\* parsed, passes; a body that is not JSON fails with a 400 SyntaxError.
jsonParser(q) ==
    LET q0 == Enter(q, "json")
    IN  IF q0.bodyParsed \/ q0.body = "none" THEN CallNext(q0, NoError)
        ELSE IF q0.body = "malformed"
        THEN CallNext(q0, BodyParseError("Unexpected token } in JSON at position 1"))
        ELSE CallNext([q0 EXCEPT !.bodyParsed = TRUE], NoError)

ForbiddenBody ==
    [error |-> "Forbidden",
     message |-> "Access denied. This API only accepts traffic from example.com or localhost:3000."]


\* Faulty variant: a denied request is passed on as an ApiError(403) instead of
\* being answered by the filter.
domainRestriction_throws(q) ==
    LET q0 == Enter(q, "domainRestriction")
    IN  IF Admits(OrEmpty(q.host), OrEmpty(q.origin), OrEmpty(q.referer))
        THEN CallNext(q0, NoError)
        ELSE CallNext(q0, ApiError(403, "Forbidden"))


\* Faulty variant: the health check is exempt from the filter.
domainRestriction_exemptHealth(q) ==
    LET q0 == Enter(q, "domainRestriction")
    IN  IF q.path = "/health" \/ Admits(OrEmpty(q.host), OrEmpty(q.origin), OrEmpty(q.referer))
        THEN CallNext(q0, NoError)
        ELSE Send(q0, 403, ForbiddenBody)

\* domainRestriction(req, res, next)
domainRestriction(q) ==
    LET q0 == Enter(q, "domainRestriction")
        host == OrEmpty(q.host)
        origin == OrEmpty(q.origin)
        referer == OrEmpty(q.referer)
    IN  IF Admits(host, origin, referer)
        THEN CallNext(q0, NoError)
        ELSE Send(q0, 403, ForbiddenBody)

\* swaggerUi.serve, swaggerUi.setup(swaggerDocument): the documentation page.
swaggerUi(q) == Send(Enter(q, "swaggerUi"), 200, [html |-> "swagger-ui"])

InvalidIdMessage == "Invalid user ID provided"


\* Faulty variant: for an invalid id validateUserId returns without sending a
\* response or calling next.
validateUserId_silent(q) ==
    LET q0 == Enter(q, "validateUserId")
    IN  IF InvalidId(q.id)
        THEN [q0 EXCEPT !.pc = "returned"]
        ELSE CallNext(q0, NoError)

\* Faulty variant: validateUserId calls next() whatever the id.
validateUserId_skip(q) == CallNext(Enter(q, "validateUserId"), NoError)

\* validateUserId(req, res, next)
validateUserId(q) ==
    LET q0 == Enter(q, "validateUserId")
    IN  IF InvalidId(q.id)
        THEN CallNext(q0, ApiError(400, InvalidIdMessage))
        ELSE CallNext(q0, NoError)


\* Faulty variant: the 404 message carries the number of requests served so far.
NotFoundBody_counted(id) ==
    [error |-> "Not Found",
     message |-> "User with ID '" \o id \o "' not found (request " \o ToString(now) \o ")"]

\* Faulty variant: the 404 message does not carry the requested id.
NotFoundBody_noId(id) == [error |-> "Not Found", message |-> "User not found"]

\* `User with ID '${id}' not found`
NotFoundBody(id) ==
    [error |-> "Not Found", message |-> "User with ID '" \o id \o "' not found"]

\* router.get('/:id') handler up to its await: userService.findById(id) is called.
getUserCall(q) ==
    [Enter(q, "getUser") EXCEPT !.pc = "awaitStore", !.reads = @ + 1]


\* Faulty variant: the handler catches the failure and answers the 500 itself.
getUserResume_local(q, failure) ==
    LET found == findById(store, q.id.s, failure)
        q0 == [q EXCEPT !.failure = failure, !.trips = @ + found.trips]
    IN  IF found.threw
        THEN Send(q0, 500, [error |-> "Internal Server Error",
                            message |-> "An unexpected error occurred"])
        ELSE IF found.value = Null
        THEN Send(q0, 404, [error |-> "Not Found",
                            message |-> "User with ID '" \o q.id.s \o "' not found"])
        ELSE Send(q0, 200, found.value)


\* Faulty variant: the id is kept in a variable of the module, so the handler
\* resumes with the id of the request received last.
getUserResume_sharedId(q, failure) ==
    LET last == CHOOSE p \in {reqs[r] : r \in DOMAIN reqs} :
                    \A r \in DOMAIN reqs : reqs[r].at <= p.at
        found == findById(store, last.id.s, failure)
        q0 == [q EXCEPT !.failure = failure, !.trips = @ + found.trips]
    IN  IF found.threw THEN CallNext(q0, found.error)
        ELSE IF found.value = Null THEN Send(q0, 404, NotFoundBody(last.id.s))
        ELSE Send(q0, 200, found.value)


\* Faulty variant: the return after the 404 is missing, so res.json(user) is
\* sent as well.
getUserResume_noReturn(q, failure) ==
    LET found == findById(store, q.id.s, failure)
        q0 == [q EXCEPT !.failure = failure, !.trips = @ + found.trips]
    IN  IF found.threw THEN CallNext(q0, found.error)
        ELSE IF found.value = Null
        THEN Send(Send(q0, 404, NotFoundBody(q.id.s)), 200, found.value)
        ELSE Send(q0, 200, found.value)

\* The handler after the await: the 404 for no user, the user as JSON, or
\* next(error) when the call threw.
getUserResume(q, failure) ==
    LET found == findById(store, q.id.s, failure)
        q0 == [q EXCEPT !.failure = failure, !.trips = @ + found.trips]
    IN  IF found.threw THEN CallNext(q0, found.error)
        ELSE IF found.value = Null THEN Send(q0, 404, NotFoundBody(q.id.s))
        ELSE Send(q0, 200, found.value)

\* new Date().toISOString() at logical time t.
IsoString(t) == "2026-01-01T00:00:0" \o ToString(t) \o ".000Z"


\* Faulty variant: the timestamp is Date.now(), a number of milliseconds.
health_epoch(q) ==
    Send(Enter(q, "health"), 200, [status |-> "healthy", timestamp |-> ToString(now)])

\* GET /health
health(q) ==
    Send(Enter(q, "health"), 200, [status |-> "healthy", timestamp |-> IsoString(now)])

InternalErrorBody ==
    [error |-> "Internal Server Error", message |-> "An unexpected error occurred"]

\* Faulty variant: every failure, an ApiError too, is answered with the generic 500.
errorHandler_always500(q) ==
    Send([Enter(q, "errorHandler") EXCEPT !.logged = Append(@, q.err.message)],
         500, InternalErrorBody)

\* Faulty variant: the generic 500 carries the failure's own message.
errorHandler_leaky(q) ==
    LET q0 == [Enter(q, "errorHandler") EXCEPT !.logged = Append(@, q.err.message)]
    IN  IF IsApiError(q.err)
        THEN Send(q0, q.err.statusCode, [error |-> q.err.name, message |-> q.err.message])
        ELSE Send(q0, 500, [error |-> "Internal Server Error", message |-> q.err.message])

\* errorHandler(err, req, res, next)
errorHandler(q) ==
    LET q0 == [Enter(q, "errorHandler") EXCEPT !.logged = Append(@, q.err.message)]
    IN  IF IsApiError(q.err)
        THEN Send(q0, q.err.statusCode, [error |-> q.err.name, message |-> q.err.message])
        ELSE Send(q0, 500, InternalErrorBody)

\* A GraphQL response whose field failed: data.user is null and the error
\* thrown by the resolver is listed with its message.
GraphqlFailure(message) ==
    [data |-> [user |-> Null], errors |-> << [message |-> message] >>]

\* Faulty variant: the resolver calls userService.findById(id) without checking the id.
apolloCall_noCheck(q) ==
    [Enter(q, "apollo") EXCEPT !.pc = "awaitResolver", !.reads = @ + 1]


\* Faulty variant: the resolver tests !id only, without the trim.
apolloCall_noTrim(q) ==
    LET q0 == Enter(q, "apollo")
    IN  IF ~Truthy(q.id)
        THEN Send(q0, 200, GraphqlFailure(PlainError(InvalidIdMessage).message))
        ELSE [q0 EXCEPT !.pc = "awaitResolver", !.reads = @ + 1]

\* expressMiddleware(apolloServer) running resolvers.Query.user up to its
\* return: an invalid id throws, a valid one calls userService.findById(id).
apolloCall(q) ==
    LET q0 == Enter(q, "apollo")
    IN  IF InvalidId(q.id)
        THEN Send(q0, 200, GraphqlFailure(PlainError(InvalidIdMessage).message))
        ELSE [q0 EXCEPT !.pc = "awaitResolver", !.reads = @ + 1]

\* Faulty variant: the resolver throws for a missing user, as the REST surface's 404.
apolloResume_throwsOnMissing(q, failure) ==
    LET found == findById(store, q.id.s, failure)
        q0 == [q EXCEPT !.failure = failure, !.trips = @ + found.trips]
    IN  IF found.threw THEN Send(q0, 200, GraphqlFailure(found.error.message))
        ELSE IF found.value = Null THEN Send(q0, 200, GraphqlFailure("User not found"))
        ELSE Send(q0, 200, [data |-> [user |-> found.value]])

\* The resolver's promise settles: the user or null as data.user, or the
\* thrown error in the errors array.
apolloResume(q, failure) ==
    LET found == findById(store, q.id.s, failure)
        q0 == [q EXCEPT !.failure = failure, !.trips = @ + found.trips]
    IN  IF found.threw THEN Send(q0, 200, GraphqlFailure(found.error.message))
        ELSE Send(q0, 200, [data |-> [user |-> found.value]])

\* Express's final handler, after the last layer: 404 when nothing answered,
\* the error's own 4xx/5xx status (else 500) when an error is still pending.
finalHandler(q) ==
    LET q0 == Enter(q, "finalHandler")
    IN  IF q.err = NoError
        THEN Send(q0, 404, [html |-> "Cannot " \o q.method \o " " \o q.path])
        ELSE Send(q0, IF q.err.statusCode \in 400..599 THEN q.err.statusCode ELSE 500,
                  [html |-> q.err.name])

\* ------------------------------------------------------------- bootstrap

\* The n-th App object and the Express object its constructor creates.
AppObject(n) == "App#" \o ToString(n)
ExpressObject(n) == "express#" \o ToString(n)

\* Faulty variant: getInstance constructs an App on every call.
getInstance_unguarded(inst, n) ==
    [instance |-> AppObject(n + 1), constructed |-> n + 1, fresh |-> TRUE]

\* App.getInstance(): if (!App.instance) App.instance = new App(); return App.instance.
\* inst is App.instance and n the number of Apps constructed so far.
getInstance(inst, n) ==
    IF inst = "undefined"
    THEN [instance |-> AppObject(n + 1), constructed |-> n + 1, fresh |-> TRUE]
    ELSE [instance |-> inst, constructed |-> n, fresh |-> FALSE]

\* One call of App.getInstance() and what it leaves behind: a constructor that
\* ran created an Express object and registered its layers on it.
CallGetInstance ==
    LET got == getInstance(instance, constructed)
    IN  /\ instance' = got.instance
        /\ constructed' = got.constructed
        /\ calls' = calls + 1
        /\ returned' = returned \cup {got.instance}
        /\ IF got.fresh
           THEN /\ handle' = ExpressObject(got.constructed)
                /\ stack' = AppConstructor(swaggerOk)
           ELSE UNCHANGED <<handle, stack>>

\* bootstrap(): const appInstance = App.getInstance(); const expressApp = appInstance.app
GetInstance ==
    /\ boot = "start"
    /\ CallGetInstance
    /\ seen' = seen \cup {[handle |-> handle', boot |-> boot]}
    /\ boot' = "created"
    /\ UNCHANGED <<store, listed, seed, swaggerOk, exitCode, listening, now, reqs>>

\* Another module calls App.getInstance().
OtherGetInstance ==
    /\ boot # "exited"
    /\ calls < MaxCalls
    /\ CallGetInstance
    /\ UNCHANGED <<store, listed, seed, swaggerOk, exitCode, seen, boot, listening, now,
                   reqs>>

\* Faulty variant: the accessor replaces this._app with a new Express object.
ReadApp_recreate ==
    /\ instance # "undefined"
    /\ handle' = ExpressObject(constructed + 1)
    /\ seen' = seen \cup {[handle |-> handle', boot |-> boot]}
    /\ UNCHANGED <<store, listed, seed, swaggerOk, exitCode, instance, constructed, calls,
                   returned, stack, boot, listening, now, reqs>>

\* get app(): return this._app, read by any holder of the App.
ReadApp ==
    /\ boot # "exited"
    /\ instance # "undefined"
    /\ seen' = seen \cup {[handle |-> handle, boot |-> boot]}
    /\ UNCHANGED <<store, listed, seed, swaggerOk, exitCode, instance, constructed, handle,
                   calls, returned, stack, boot, listening, now, reqs>>

\* await apolloServer.start() resolves.
ApolloStart ==
    /\ boot = "created"
    /\ boot' = "started"
    /\ UNCHANGED <<store, listed, seed, swaggerOk, exitCode, instance, constructed, handle,
                   calls, returned, seen, stack, listening, now, reqs>>

\* await apolloServer.start() rejects: bootstrap().catch logs and exits.
ApolloStartFails ==
    /\ boot = "created"
    /\ boot' = "exited"
    /\ exitCode' = 1
    /\ UNCHANGED <<store, listed, seed, swaggerOk, instance, constructed, handle, calls,
                   returned, seen, stack, listening, now, reqs>>

\* expressApp.use('/graphql', ...)
MountGraphql ==
    /\ boot = "started"
    /\ stack' = stack \o GraphqlLayers
    /\ boot' = "mounted"
    /\ UNCHANGED <<store, listed, seed, swaggerOk, exitCode, instance, constructed, handle,
                   calls, returned, seen, listening, now, reqs>>


\* Faulty variant: listen is called as soon as the App exists, before Apollo
\* has started and /graphql is mounted.
Listen_early ==
    /\ boot = "created"
    /\ listening' = TRUE
    /\ boot' = "listening"
    /\ UNCHANGED <<store, listed, seed, swaggerOk, exitCode, instance, constructed, handle,
                   calls, returned, seen, stack, now, reqs>>

\* appInstance.listen(PORT)
Listen ==
    /\ boot = "mounted"
    /\ listening' = TRUE
    /\ boot' = "listening"
    /\ UNCHANGED <<store, listed, seed, swaggerOk, exitCode, instance, constructed, handle,
                   calls, returned, seen, stack, now, reqs>>


\* The port cannot be bound: the server emits 'error', nothing handles it, and
\* the process ends on the uncaught exception with exit code 1.
ListenFails ==
    /\ boot = "mounted"
    /\ boot' = "exited"
    /\ exitCode' = 1
    /\ UNCHANGED <<store, listed, seed, swaggerOk, instance, constructed, handle, calls,
                   returned, seen, stack, listening, now, reqs>>

\* --------------------------------------------------------------- actions

\* The request in slot r takes one step of the handler it is at.
Step(r, q) ==
    /\ reqs' = [reqs EXCEPT ![r] = q]
    /\ UNCHANGED <<store, listed, seed, swaggerOk, exitCode, instance, constructed, handle,
                   calls, returned, seen, stack, boot, listening, now>>

\* The same for a step that awaited the store: the table is as the call left it.
StepStore(r, q, rows) ==
    /\ reqs' = [reqs EXCEPT ![r] = q]
    /\ store' = rows
    /\ UNCHANGED <<listed, seed, swaggerOk, exitCode, instance, constructed, handle, calls,
                   returned, seen, stack, boot, listening, now>>


\* A caller of the exported userService awaits findAll(): what it yields is
\* kept and the table is as the call left it.
FindAll ==
    /\ \E failure \in {""} \cup StoreFailures :
          LET got == findAll(store, failure)
          IN  /\ listed' = got
              /\ store' = got.rows
    /\ UNCHANGED <<seed, swaggerOk, exitCode, instance, constructed, handle, calls,
                   returned, seen, stack, boot, listening, now, reqs>>


\* What the seed actions leave alone: the server.
ServerVars ==
    <<listed, swaggerOk, exitCode, instance, constructed, handle, calls, returned, seen,
      stack, boot, listening, now, reqs>>

\* main() up to Promise.all: await deleteMany(), then the three creates are
\* issued together. A deleteMany that fails rejects main(): exit code 1.
SeedDeleteMany(s) ==
    /\ seed[s].pc = "idle"
    /\ \E failure \in {""} \cup StoreFailures :
          IF failure = ""
          THEN /\ store' = deleteMany(store)
               /\ seed' = [seed EXCEPT ![s].pc = "creating", ![s].pending = SeedUsers,
                                       ![s].deleted = Cardinality(store)]
          ELSE /\ store' = store
               /\ seed' = [seed EXCEPT ![s].pc = "failed", ![s].exit = 1,
                                       ![s].error = StoreError(failure)]
    /\ UNCHANGED ServerVars

\* One of the issued creates completes. Promise.all resolves when the last
\* one succeeded (the run ends with exit code 0) and rejects at the first
\* that fails (exit code 1); creates already issued may still complete.
SeedCreate(s) ==
    /\ seed[s].pc \in {"creating", "failed"}
    /\ \E data \in seed[s].pending, failure \in {""} \cup StoreFailures :
          LET got == create(store, data, failure)
              me == seed[s]
              left == me.pending \ {data}
          IN  /\ store' = got.rows
              /\ seed' = [seed EXCEPT ![s] =
                    IF got.threw
                    THEN [me EXCEPT !.pending = left, !.pc = "failed", !.exit = 1,
                                    !.error = IF me.pc = "failed" THEN @ ELSE got.error]
                    ELSE [me EXCEPT !.pending = left,
                                    !.made = @ \cup {data},
                                    !.dups = @ + (IF \E u \in store : u.id = data.id
                                                  THEN 1 ELSE 0),
                                    !.pc = IF me.pc = "creating" /\ left = {}
                                           THEN "done" ELSE @,
                                    !.exit = IF me.pc = "creating" /\ left = {}
                                             THEN 0 ELSE @]]
    /\ UNCHANGED ServerVars

\* A client sends a request on a free connection.
Receive(r) ==
    /\ listening
    /\ reqs[r].pc = "idle"
    /\ now < MaxRequests
    /\ \E c \in Calls, host \in HostValues, origin \in OriginValues, referer \in RefererValues :
          LET q == NewRequest(c, host, origin, referer, now + 1)
          IN  reqs' = [reqs EXCEPT ![r] = [q EXCEPT !.idx = NextIdx(stack, q, 1)]]
    /\ now' = now + 1
    /\ UNCHANGED <<store, listed, seed, swaggerOk, exitCode, instance, constructed, handle,
                   calls, returned, seen, stack, boot, listening>>


\* A few requests, one of every kind the server distinguishes: per surface a
\* stored id, a missing id and a blank id, plus the health check, the API
\* documentation, an unrouted path and a body that is not JSON.
FewCalls ==
    { [method |-> "GET", path |-> "/users/:id", body |-> "none", id |-> i] :
          i \in {Str("user1"), Str("ghost"), Str(" ")} }
    \cup { [method |-> "POST", path |-> "/graphql", body |-> "json", id |-> i] :
          i \in {Str("user1"), Str("ghost"), Str(""), Str(" ")} }
    \cup { [method |-> "GET", path |-> p, body |-> "none", id |-> Undefined] :
          p \in {"/health", "/api-docs", "/"} }
    \cup { [method |-> "POST", path |-> "/graphql", body |-> "malformed", id |-> Str("user1")] }

\* An allowed and a denied Host.
FewHosts == { Str("localhost:3000"), Str("evil.com") }

\* A client sends one of the few requests on a free connection, with no
\* Origin and no Referer.
ReceiveFew(r) ==
    /\ listening
    /\ reqs[r].pc = "idle"
    /\ now < MaxRequests
    /\ \E c \in FewCalls, host \in FewHosts :
          LET q == NewRequest(c, host, Undefined, Undefined, now + 1)
          IN  reqs' = [reqs EXCEPT ![r] = [q EXCEPT !.idx = NextIdx(stack, q, 1)]]
    /\ now' = now + 1
    /\ UNCHANGED <<store, listed, seed, swaggerOk, exitCode, instance, constructed, handle,
                   calls, returned, seen, stack, boot, listening>>

\* The response has been written out and the connection is free again.
Close(r) ==
    /\ reqs[r].pc = "done"
    /\ Step(r, Idle)

JsonParser(r) == AtLayer(reqs[r], "json") /\ Step(r, jsonParser(reqs[r]))

DomainRestriction(r) ==
    AtLayer(reqs[r], "domainRestriction") /\ Step(r, domainRestriction(reqs[r]))

SwaggerUi(r) == AtLayer(reqs[r], "swaggerUi") /\ Step(r, swaggerUi(reqs[r]))

ValidateUserId(r) == AtLayer(reqs[r], "validateUserId") /\ Step(r, validateUserId(reqs[r]))

GetUserCall(r) == AtLayer(reqs[r], "getUser") /\ Step(r, getUserCall(reqs[r]))

GetUserResume(r) ==
    /\ reqs[r].pc = "awaitStore"
    /\ \E failure \in {""} \cup StoreFailures :
          StepStore(r, getUserResume(reqs[r], failure),
                    findById(store, reqs[r].id.s, failure).rows)

Health(r) == AtLayer(reqs[r], "health") /\ Step(r, health(reqs[r]))

ErrorHandler(r) == AtLayer(reqs[r], "errorHandler") /\ Step(r, errorHandler(reqs[r]))

ApolloCall(r) == AtLayer(reqs[r], "apollo") /\ Step(r, apolloCall(reqs[r]))

ApolloResume(r) ==
    /\ reqs[r].pc = "awaitResolver"
    /\ \E failure \in {""} \cup StoreFailures :
          StepStore(r, apolloResume(reqs[r], failure),
                    findById(store, reqs[r].id.s, failure).rows)

FinalHandler(r) ==
    /\ reqs[r].pc = "run"
    /\ reqs[r].idx = Len(stack) + 1
    /\ Step(r, finalHandler(reqs[r]))

Init ==
    /\ store \in StoreContents
    /\ listed = NotListed
    /\ seed = [s \in Seeders |-> NotSeeding]
    /\ swaggerOk \in BOOLEAN
    /\ instance = "undefined"
    /\ constructed = 0
    /\ handle = "undefined"
    /\ calls = 0
    /\ returned = {}
    /\ seen = {}
    /\ stack = << >>
    /\ boot = "start"
    /\ exitCode = -1
    /\ listening = FALSE
    /\ now = 0
    /\ reqs = [r \in Slots |-> Idle]

Next ==
    \/ GetInstance
    \/ ApolloStart
    \/ ApolloStartFails
    \/ MountGraphql
    \/ Listen
    \/ ListenFails
    \/ \E r \in Serial :
        \/ Receive(r)
        \/ Close(r)
        \/ JsonParser(r)
        \/ DomainRestriction(r)
        \/ SwaggerUi(r)
        \/ ValidateUserId(r)
        \/ GetUserCall(r)
        \/ GetUserResume(r)
        \/ Health(r)
        \/ ErrorHandler(r)
        \/ ApolloCall(r)
        \/ ApolloResume(r)
        \/ FinalHandler(r)

Spec == Init /\ [][Next]_vars


\* The process with any number of further App.getInstance() callers and
\* readers of the app accessor, before, during and after bootstrap, serving
\* the few requests one at a time.
NextBoot ==
    \/ GetInstance
    \/ OtherGetInstance
    \/ ReadApp
    \/ ApolloStart
    \/ ApolloStartFails
    \/ MountGraphql
    \/ Listen
    \/ ListenFails
    \/ \E r \in Serial :
        \/ ReceiveFew(r)
        \/ Close(r)
        \/ JsonParser(r)
        \/ DomainRestriction(r)
        \/ SwaggerUi(r)
        \/ ValidateUserId(r)
        \/ GetUserCall(r)
        \/ GetUserResume(r)
        \/ Health(r)
        \/ ErrorHandler(r)
        \/ ApolloCall(r)
        \/ ApolloResume(r)
        \/ FinalHandler(r)

SpecBoot == Init /\ [][NextBoot]_vars


\* The server with two connections: the few requests arrive one after the
\* other or while another is in flight, and their handlers interleave at
\* every await and every next().
NextPair ==
    \/ GetInstance
    \/ ApolloStart
    \/ ApolloStartFails
    \/ MountGraphql
    \/ Listen
    \/ ListenFails
    \/ \E r \in Slots :
        \/ ReceiveFew(r)
        \/ Close(r)
        \/ JsonParser(r)
        \/ DomainRestriction(r)
        \/ SwaggerUi(r)
        \/ ValidateUserId(r)
        \/ GetUserCall(r)
        \/ GetUserResume(r)
        \/ Health(r)
        \/ ErrorHandler(r)
        \/ ApolloCall(r)
        \/ ApolloResume(r)
        \/ FinalHandler(r)

SpecPair == Init /\ [][NextPair]_vars


\* The server serving the few requests one at a time while callers of the
\* user service list the users.
NextStore ==
    \/ GetInstance
    \/ ApolloStart
    \/ ApolloStartFails
    \/ MountGraphql
    \/ Listen
    \/ ListenFails
    \/ FindAll
    \/ \E r \in Serial :
        \/ ReceiveFew(r)
        \/ Close(r)
        \/ JsonParser(r)
        \/ DomainRestriction(r)
        \/ SwaggerUi(r)
        \/ ValidateUserId(r)
        \/ GetUserCall(r)
        \/ GetUserResume(r)
        \/ Health(r)
        \/ ErrorHandler(r)
        \/ ApolloCall(r)
        \/ ApolloResume(r)
        \/ FinalHandler(r)

SpecStore == Init /\ [][NextStore]_vars


\* Before a seed run: any of the tables it may find, the server not started.
InitSeed ==
    /\ store \in SeedPriors
    /\ listed = NotListed
    /\ seed = [s \in Seeders |-> NotSeeding]
    /\ swaggerOk = TRUE
    /\ instance = "undefined"
    /\ constructed = 0
    /\ handle = "undefined"
    /\ calls = 0
    /\ returned = {}
    /\ seen = {}
    /\ stack = << >>
    /\ boot = "start"
    /\ exitCode = -1
    /\ listening = FALSE
    /\ now = 0
    /\ reqs = [r \in Slots |-> Idle]

\* One run of the seed script, nothing else writing the table, while a
\* caller of the user service lists the users at any moment of the run.
NextSeed ==
    \/ FindAll
    \/ \E s \in OneSeeder :
        \/ SeedDeleteMany(s)
        \/ SeedCreate(s)

SpecSeed == InitSeed /\ [][NextSeed]_vars

\* Two runs of the seed script, one after the other or interleaved.
NextSeeds ==
    \E s \in Seeders :
        \/ SeedDeleteMany(s)
        \/ SeedCreate(s)

SpecSeeds == InitSeed /\ [][NextSeeds]_vars


\* The next step of the request on connection r, whichever handler it is at.
Serve(r) ==
    \/ JsonParser(r)
    \/ DomainRestriction(r)
    \/ SwaggerUi(r)
    \/ ValidateUserId(r)
    \/ GetUserCall(r)
    \/ GetUserResume(r)
    \/ Health(r)
    \/ ErrorHandler(r)
    \/ ApolloCall(r)
    \/ ApolloResume(r)
    \/ FinalHandler(r)

\* The server under the scheduling of the event loop: a handler that is ready
\* to run does run, and a store call that was made returns or fails.
SpecLive == Init /\ [][NextStore]_vars /\ \A r \in Serial : WF_vars(Serve(r))

\* ===================================================================
\* Properties
\* ===================================================================

\* Handler h has been entered for request q.
HasRun(q, h) == \E i \in 1..Len(q.ran) : q.ran[i] = h

\* The last handler entered for request q.
LastRun(q) == q.ran[Len(q.ran)]

\* The text of a header, an absent header counting as the empty string.
HeaderText(v) == IF v.t = "undefined" THEN "" ELSE v.s

\* The allow-list as the specification gives it.
AllowList == {"example.com", "www.example.com", "localhost:3000", "127.0.0.1:3000"}

\* Host is an allowed host or a subdomain of one.
HostRule(q) ==
    \E E \in AllowList :
        HeaderText(q.host) = E \/ EndsWith(HeaderText(q.host), "." \o E)

\* The admission rule: Host matches, or Origin or Referer contains an entry.
AdmissionRule(q) ==
    \/ HostRule(q)
    \/ \E E \in AllowList :
          Includes(HeaderText(q.origin), E) \/ Includes(HeaderText(q.referer), E)

\* domainRestriction answered the request itself, with the 403 envelope.
DeniedByFilter(q) ==
    /\ q.pc = "done"
    /\ LastRun(q) = "domainRestriction"
    /\ q.res = [status |-> 403, body |-> ForbiddenBody]
    /\ q.sent = 1

\* domainRestriction called next(): it sent nothing and control went on.
PassedFilter(q) ==
    /\ HasRun(q, "domainRestriction")
    /\ ~(q.pc = "done" /\ LastRun(q) = "domainRestriction")
    /\ q.err = NoError \/ LastRun(q) # "domainRestriction"

Downstream ==
    {"swaggerUi", "validateUserId", "getUser", "health", "errorHandler", "apollo",
     "finalHandler"}

\* Request q was answered 403 with the fixed envelope and nothing downstream ran.
Answered403(q) ==
    /\ q.res = [status |-> 403, body |-> ForbiddenBody]
    /\ q.sent = 1
    /\ q.reads = 0
    /\ \A i \in 1..Len(q.ran) : q.ran[i] \notin Downstream

C3_HostOnly ==
    \A r \in Slots :
        LET q == reqs[r]
        IN  HasRun(q, "domainRestriction") /\ ~HostRule(q) => DeniedByFilter(q)

\* The request passed the first admission check with a parsed or absent body.
Admitted(q) == PassedFilter(q)

\* An id that passes validation, as the specification states it: present, a
\* string, and not empty once the white space around it is removed.
ValidIdRule(id) == id.t = "string" /\ Trim(id.s) # ""

\* An admitted GET /users/:id with a valid id has its answer, and the store
\* call made for it (if any) returned.
RestAnswered(q) ==
    /\ q.path = "/users/:id"
    /\ q.pc = "done"
    /\ Admitted(q)
    /\ ValidIdRule(q.id)
    /\ q.failure = ""

\* C4: an admitted GET /users/{id} with a valid id whose lookup returned is
\* answered 200 with the stored {id, name} when the store holds the id, and 404
\* with {error: 'Not Found', message: "User with ID '<id>' not found"} when it
\* does not.
C4_RestLookup ==
    \A r \in Slots :
        LET q == reqs[r]
        IN  RestAnswered(q) =>
                /\ LastRun(q) = "getUser" /\ q.reads = 1 /\ q.sent = 1
                /\ \A u \in store : u.id = q.id.s =>
                       q.res = [status |-> 200, body |-> [id |-> u.id, name |-> u.name]]
                /\ (\A u \in store : u.id # q.id.s) =>
                       q.res = [status |-> 404,
                                body |-> [error |-> "Not Found",
                                          message |-> "User with ID '" \o q.id.s
                                                        \o "' not found"]]

\* C4 witness: user3 found in the seeded store.
C4_Witness ==
    \E r \in Slots :
        LET q == reqs[r]
        IN  /\ RestAnswered(q)
            /\ q.id = Str("user3")
            /\ q.res = [status |-> 200, body |-> [id |-> "user3", name |-> "Bob Wilson"]]

\* An admitted query user(id) with a valid id has its answer, and the store
\* call made for it (if any) returned.
GraphqlAnswered(q) ==
    /\ q.path = "/graphql"
    /\ q.pc = "done"
    /\ Admitted(q)
    /\ ValidIdRule(q.id)
    /\ q.failure = ""

\* C5: an admitted query user(id) with a valid id whose lookup returned has
\* data.user equal to the stored {id, name} when the store holds the id, and
\* data.user = null without an errors entry when it does not.
C5_GraphqlLookup ==
    \A r \in Slots :
        LET q == reqs[r]
        IN  GraphqlAnswered(q) =>
                /\ LastRun(q) = "apollo" /\ q.reads = 1 /\ q.sent = 1
                /\ q.res.status = 200
                /\ "errors" \notin DOMAIN q.res.body
                /\ \A u \in store : u.id = q.id.s =>
                       q.res.body.data.user = [id |-> u.id, name |-> u.name]
                /\ (\A u \in store : u.id # q.id.s) => q.res.body.data.user = Null

\* C5 witness: an id the store does not hold gives data.user = null.
C5_Witness ==
    \E r \in Slots :
        LET q == reqs[r]
        IN  /\ GraphqlAnswered(q)
            /\ q.id = Str("user3")
            /\ store = {[id |-> "user1", name |-> "John Doe"]}
            /\ q.res.body = [data |-> [user |-> Null]]

\* C6: for an admitted GET /users/{id} whose id is missing, not a string or
\* blank, validateUserId raises ApiError(400, 'Invalid user ID provided'), the
\* client receives 400 {error: 'ApiError', message: 'Invalid user ID provided'}
\* and the lookup handler does not run.
C6_RestInvalidId ==
    \A r \in Slots :
        LET q == reqs[r]
        IN  /\ q.path = "/users/:id" /\ HasRun(q, "validateUserId") /\ ~ValidIdRule(q.id) =>
                /\ Admitted(q)
                /\ ~HasRun(q, "getUser")
                /\ q.reads = 0
                /\ q.err = [cls |-> "ApiError", name |-> "ApiError",
                            message |-> "Invalid user ID provided", statusCode |-> 400]
                /\ q.pc = "done" =>
                       /\ q.res = [status |-> 400,
                                   body |-> [error |-> "ApiError",
                                             message |-> "Invalid user ID provided"]]
                       /\ q.sent = 1
            /\ q.path = "/users/:id" /\ HasRun(q, "validateUserId") /\ ValidIdRule(q.id) =>
                q.err.cls # "ApiError"

\* C6 witness: a white-space id answered 400.
C6_Witness ==
    \E r \in Slots :
        LET q == reqs[r]
        IN  /\ q.pc = "done"
            /\ q.id = Str(" \t")
            /\ HasRun(q, "validateUserId")
            /\ q.res.status = 400

\* C7: an admitted query user(id) whose id is empty or white space is answered
\* with status 200 and an errors array holding 'Invalid user ID provided'.
C7_GraphqlInvalidId ==
    \A r \in Slots :
        LET q == reqs[r]
        IN  q.path = "/graphql" /\ HasRun(q, "apollo") /\ Trim(q.id.s) = "" =>
                /\ Admitted(q)
                /\ q.pc = "done"
                /\ q.res.status = 200
                /\ "errors" \in DOMAIN q.res.body
                /\ \E i \in 1..Len(q.res.body.errors) :
                       q.res.body.errors[i].message = "Invalid user ID provided"
                /\ q.res.body.data.user = Null

\* C7 witness: the query user(id: "") answered with the error.
C7_Witness ==
    \E r \in Slots :
        LET q == reqs[r]
        IN  /\ q.path = "/graphql"
            /\ q.pc = "done"
            /\ q.id = Str("")
            /\ HasRun(q, "apollo")
            /\ q.res.status = 200

\* The validation message is what the surface told the client.
RejectedAsInvalid(q) ==
    \/ q.path = "/users/:id" /\ q.res.status = 400
          /\ q.res.body.message = "Invalid user ID provided"
    \/ q.path = "/graphql" /\ "errors" \in DOMAIN q.res.body
          /\ q.res.body.errors[1].message = "Invalid user ID provided"

NormalizerAnswered(q) == q.pc = "done" /\ LastRun(q) = "errorHandler"

\* C9 as claimed: every failure reaching errorHandler with an explicit status
\* code is answered with that status and {error: <kind>, message: <message>}.
C9_Original ==
    \A r \in Slots :
        LET q == reqs[r]
        IN  NormalizerAnswered(q) /\ q.err.statusCode # 0 =>
                q.res = [status |-> q.err.statusCode,
                         body |-> [error |-> q.err.name, message |-> q.err.message]]

\* C9 amended: an ApiError reaching errorHandler is answered with its own status
\* code and {error: 'ApiError', message: <its message>}; a failure that carries
\* a status code but is not an ApiError (the JSON parser's 400) is answered 500.
C9_ApiErrorPassThrough ==
    \A r \in Slots :
        LET q == reqs[r]
        IN  NormalizerAnswered(q) /\ q.err.statusCode # 0 =>
                IF q.err.cls = "ApiError"
                THEN q.res = [status |-> q.err.statusCode,
                              body |-> [error |-> "ApiError", message |-> q.err.message]]
                ELSE q.res.status = 500

\* C9 witness: the ApiError(400) of a blank id answered by errorHandler.
C9_Witness ==
    \E r \in Slots :
        LET q == reqs[r]
        IN  /\ NormalizerAnswered(q)
            /\ q.err.cls = "ApiError"
            /\ q.err.statusCode = 400
            /\ q.res.status = 400

\* C10: every failure reaching errorHandler that is not an ApiError is answered
\* 500 with the fixed generic body, whatever the failure's message or kind, and
\* the message is logged, not sent.
C10_GenericFailure ==
    \A r \in Slots :
        LET q == reqs[r]
        IN  NormalizerAnswered(q) /\ q.err.cls # "ApiError" =>
                /\ q.res = [status |-> 500,
                            body |-> [error |-> "Internal Server Error",
                                      message |-> "An unexpected error occurred"]]
                /\ q.sent = 1
                /\ q.logged = << q.err.message >>

\* C10 witness: a store failure answered with the generic body.
C10_Witness ==
    \E r \in Slots :
        LET q == reqs[r]
        IN  /\ NormalizerAnswered(q)
            /\ q.err.cls = "PrismaClientError"
            /\ q.err.message = "SQLITE_CANTOPEN: unable to open database file"
            /\ q.res.status = 500

\* ------------------------------------------------- store failures (REST)

\* The store call made for GET /users/:id request q failed.
RestStoreFailed(q) == q.path = "/users/:id" /\ q.failure # ""

\* C11: when the store call made for an admitted, valid GET /users/:id fails,
\* the handler sends nothing itself and passes the failure to errorHandler,
\* which sends the only response (500 with the generic body); findById was
\* called once for the request and made one round trip to the store.
C11_StoreFailureForwarded ==
    \A r \in Slots :
        LET q == reqs[r]
        IN  RestStoreFailed(q) =>
                /\ Admitted(q) /\ ValidIdRule(q.id)
                /\ q.reads = 1 /\ q.trips = 1
                /\ q.err = StoreError(q.failure)
                /\ q.pc \in {"run", "done"}
                /\ q.pc = "run" => q.sent = 0 /\ LastRun(q) = "getUser"
                                     /\ stack[q.idx].kind = "errorHandler"
                /\ q.pc = "done" =>
                      /\ LastRun(q) = "errorHandler"
                      /\ q.ran[Len(q.ran) - 1] = "getUser"
                      /\ q.sent = 1
                      /\ q.res = [status |-> 500,
                                  body |-> [error |-> "Internal Server Error",
                                            message |-> "An unexpected error occurred"]]

\* C11 witness: a failed store call answered 500 by errorHandler after one call.
C11_Witness ==
    \E r \in Slots :
        LET q == reqs[r]
        IN  /\ RestStoreFailed(q)
            /\ q.pc = "done"
            /\ LastRun(q) = "errorHandler"
            /\ q.res.status = 500
            /\ q.reads = 1

\* ------------------------------------- the normalizer and the query surface

GraphqlStoreFailed(q) == q.path = "/graphql" /\ q.pc = "done" /\ q.failure # ""

\* The response is a query-level error with transport status 200, after one
\* call of findById and one round trip to the store.
QueryErrorOnce(q) ==
    /\ q.res.status = 200
    /\ "errors" \in DOMAIN q.res.body
    /\ Len(q.res.body.errors) = 1
    /\ q.res.body.data = [user |-> Null]
    /\ q.sent = 1
    /\ q.reads = 1 /\ q.trips = 1

\* C13 as claimed: when the resolver's store call fails, the response is a
\* query-level error with status 200 after exactly one store call, and the
\* error entry sent to the caller carries nothing of the store's failure
\* message: it is the same entry whichever way the store failed.
C13_DetailSuppressed ==
    \A r \in Slots :
        LET q == reqs[r]
        IN  GraphqlStoreFailed(q) =>
                /\ QueryErrorOnce(q)
                /\ ~Includes(q.res.body.errors[1].message, q.failure)
                /\ \A f \in StoreFailures :
                      q.res.body.errors = GraphqlFailure(StoreError(f).message).errors

\* ------------------------------------------------------------ the singleton

\* How many layers of the given kind the stack holds for every path.
Registered(kind) ==
    Cardinality({ i \in 1..Len(stack) : stack[i].kind = kind /\ stack[i].path = "*" })

\* C14: however many times and in whatever order App.getInstance() is called,
\* the App constructor has run exactly once as soon as one call was made,
\* every call returned the one App object, and the application-level json(),
\* domainRestriction and errorHandler are each registered once.
C14_SingleInstance ==
    /\ constructed <= 1
    /\ Cardinality(returned) <= 1
    /\ calls = 0 => constructed = 0 /\ instance = "undefined" /\ returned = {}
    /\ calls > 0 =>
          /\ constructed = 1
          /\ instance = AppObject(1)
          /\ returned = {instance}
          /\ Registered("json") = 1
          /\ Registered("domainRestriction") = 1
          /\ Registered("errorHandler") = 1

\* C14 witness: three calls of App.getInstance(), one before bootstrap's own,
\* with the server listening.
C14_Witness ==
    /\ calls = 3
    /\ constructed = 1
    /\ returned = {AppObject(1)}
    /\ listening

\* ----------------------------------------------------- the Express handle

\* C15: once the App is constructed its Express handle is the object the
\* constructor created, every read of the app accessor returned that object,
\* before and after /graphql was mounted and the server started, and mounting
\* /graphql added layers to the handle's stack without replacing it.
C15_HandleIdentity ==
    /\ instance = "undefined" => handle = "undefined" /\ seen = {}
    /\ instance # "undefined" =>
          /\ handle = ExpressObject(1)
          /\ \A s \in seen : s.handle = ExpressObject(1)
          /\ SubSeq(stack, 1, Len(AppConstructor(swaggerOk))) = AppConstructor(swaggerOk)
          /\ boot \in {"mounted", "listening"} =>
                stack = AppConstructor(swaggerOk) \o GraphqlLayers

\* C15 witness: the accessor was read before bootstrap's own read and again
\* after /graphql was mounted and the server listened, and a /graphql request
\* was answered through the mounted route.
C15_Witness ==
    /\ \E s \in seen : s.boot = "start"
    /\ \E s \in seen : s.boot = "listening"
    /\ \A s \in seen : s.handle = ExpressObject(1)
    /\ \E r \in Slots : reqs[r].pc = "done" /\ LastRun(reqs[r]) = "apollo"

\* ------------------------------------------------------------- idempotence

\* Requests p and q are the same lookup: the same surface, id, body and headers.
SameLookup(p, q) ==
    /\ p.path \in {"/users/:id", "/graphql"}
    /\ p.method = q.method /\ p.path = q.path /\ p.body = q.body /\ p.id = q.id
    /\ p.host = q.host /\ p.origin = q.origin /\ p.referer = q.referer

\* C16: two requests for the same id on the same surface with the same
\* headers, sent one after the other or overlapping, against the same table
\* and with the store answering (or failing) alike, are answered with the
\* same status and body.
C16_IdempotentReads ==
    \A r1 \in Slots, r2 \in Slots :
        LET p == reqs[r1]
            q == reqs[r2]
        IN  /\ p.pc = "done" /\ q.pc = "done"
            /\ SameLookup(p, q)
            /\ p.failure = q.failure
            => p.res = q.res

\* C16 witness: the same GET for a missing id answered twice, the second
\* request received after the first, both 404 with the same body.
C16_Witness ==
    LET p == reqs[1]
        q == reqs[2]
    IN  /\ p.pc = "done" /\ q.pc = "done"
        /\ SameLookup(p, q)
        /\ p.path = "/users/:id" /\ p.id = Str("ghost")
        /\ p.at # q.at
        /\ p.res.status = 404 /\ q.res = p.res

\* -------------------------------------------------------- the store's frame

\* Every findById call made for request q that has returned made one round
\* trip to the store, and no request calls findById twice.
OneReadPerCall(q) ==
    /\ q.reads <= 1
    /\ q.trips = IF q.pc \in {"awaitStore", "awaitResolver"} THEN q.reads - 1 ELSE q.reads

\* C17: no step of the server changes the table of users, whatever requests
\* (REST, GraphQL, health, denied) it serves and however often findAll is
\* called; every findById call that returned made exactly one round trip to
\* the store, and findAll yields the table as it is after one round trip.
C17_ReadOnly ==
    /\ [][store' = store]_vars
    /\ [](\A r \in Slots : OneReadPerCall(reqs[r]))
    /\ [](listed # NotListed =>
             /\ listed.rows = store
             /\ listed.trips = 1
             /\ ~listed.threw => listed.value = store)

\* C17 witness: after two requests, the second a lookup of a missing id that
\* read the store once, and a findAll call that listed the seeded users.
C17_Witness ==
    /\ store = SeedUsers
    /\ now = 2
    /\ listed # NotListed /\ ~listed.threw /\ listed.value = SeedUsers
    /\ \E r \in Slots :
          LET q == reqs[r]
          IN  q.pc = "done" /\ q.id = Str("ghost") /\ q.reads = 1 /\ q.trips = 1

\* ---------------------------------------------------- concurrent requests

\* Request q as the server first saw it.
AsReceived(q) ==
    LET c == [method |-> q.method, path |-> q.path, body |-> q.body, id |-> q.id]
        q0 == NewRequest(c, q.host, q.origin, q.referer, q.at)
    IN  [q0 EXCEPT !.idx = NextIdx(stack, q0, 1)]

\* The handler of a layer of the given kind applied to request q.
RunLayer(kind, q) ==
    CASE kind = "json" -> jsonParser(q)
      [] kind = "domainRestriction" -> domainRestriction(q)
      [] kind = "swaggerUi" -> swaggerUi(q)
      [] kind = "validateUserId" -> validateUserId(q)
      [] kind = "getUser" -> getUserCall(q)
      [] kind = "health" -> health(q)
      [] kind = "errorHandler" -> errorHandler(q)
      [] kind = "apollo" -> apolloCall(q)

\* Request q handled from where it stands to its response with no other
\* request in between, the store answering its lookup with the given outcome.
RECURSIVE Alone(_, _)
Alone(q, failure) ==
    IF q.pc = "done" THEN q
    ELSE IF q.pc = "awaitStore" THEN Alone(getUserResume(q, failure), failure)
    ELSE IF q.pc = "awaitResolver" THEN Alone(apolloResume(q, failure), failure)
    ELSE IF q.idx = Len(stack) + 1 THEN Alone(finalHandler(q), failure)
    ELSE Alone(RunLayer(stack[q.idx].kind, q), failure)

\* A step of request handling: the server is up and some request moved.
RequestStep == listening /\ reqs' # reqs

\* C18: however the handlers of two REST or GraphQL requests in flight
\* interleave, each answered request has the response, and has gone through
\* the handlers, reads and log lines, that it would have had as the only
\* request with the store answering it the same way; a step of one request
\* changes that request alone, not the other request, the table, the layer
\* stack or the App.
C18_Independent ==
    /\ [](\A r \in Slots :
             LET q == reqs[r]
             IN  q.pc = "done" /\ q.path \in {"/users/:id", "/graphql"} =>
                     q = Alone(AsReceived(q), q.failure))
    /\ [][RequestStep =>
             /\ \E r \in Slots : \A o \in Slots \ {r} : reqs'[o] = reqs[o]
             /\ UNCHANGED <<store, stack, instance, handle>>]_vars

\* C18 witness: a GraphQL query for a missing user arrived after a GET for a
\* stored user and was answered, with data.user null, while the GET was still
\* waiting for the store.
C18_Witness ==
    \E r1 \in Slots, r2 \in Slots :
        LET p == reqs[r1]
            q == reqs[r2]
        IN  /\ p.path = "/users/:id" /\ p.id = Str("user1") /\ p.at = 1
            /\ p.pc = "awaitStore"
            /\ q.path = "/graphql" /\ q.id = Str("ghost") /\ q.at = 2
            /\ q.pc = "done"
            /\ q.res = [status |-> 200, body |-> [data |-> [user |-> Null]]]

\* ------------------------------------------------------ findById's result

\* The ids the requests of the model look up.
LookedUpIds == { i.s : i \in RestIds \cup GraphqlIds }

\* A lookup was made for request q and the store answered it.
LookupReturned(q) ==
    /\ q.path \in {"/users/:id", "/graphql"}
    /\ q.reads = 1
    /\ q.trips = 1
    /\ q.failure = ""

\* C19: on a store that answers, findById raises nothing: for an id with no
\* row it yields null, for an id with a row it yields that row; a request
\* whose lookup was answered carries no failure, whether the id was found or
\* not.
C19_MissingIsNull ==
    /\ \A id \in LookedUpIds :
          LET found == findById(store, id, "")
          IN  /\ ~found.threw
              /\ found.error = NoError
              /\ (\A u \in store : u.id # id) => found.value = Null
              /\ (\E u \in store : u.id = id) => found.value \in store /\ found.value.id = id
    /\ \A r \in Slots :
          LET q == reqs[r]
          IN  LookupReturned(q) =>
                  /\ q.err = NoError
                  /\ ~HasRun(q, "errorHandler")
                  /\ q.pc = "done"
                  /\ q.sent = 1

\* C19 witness: a lookup of an id absent from the seeded table returned null
\* and the request was answered 404 with no failure raised.
C19_Witness ==
    \E r \in Slots :
        LET q == reqs[r]
        IN  /\ store = SeedUsers
            /\ LookupReturned(q)
            /\ q.path = "/users/:id"
            /\ q.id = Str("ghost")
            /\ findById(store, q.id.s, "").value = Null
            /\ q.res.status = 404
            /\ q.err = NoError

\* ------------------------------------------------ the REST state machine

\* The stage of GET /users/:id request q: responded once its response is
\* sent, looked-up once its store call has completed, validated once
\* validateUserId has passed it on without an error, received before that.
Stage(q) ==
    IF q.pc = "done" THEN "responded"
    ELSE IF q.trips > 0 THEN "looked-up"
    ELSE IF HasRun(q, "validateUserId") /\ q.err = NoError THEN "validated"
    ELSE "received"

\* What holds of REST request q at every moment: a store call only after
\* validation passed a valid id, a response to a looked-up request only after
\* the store call completed, and one response.
RestOrder(q) ==
    /\ q.reads > 0 =>
          /\ HasRun(q, "validateUserId")
          /\ ValidIdRule(q.id)
          /\ \E i \in 1..Len(q.ran), j \in 1..Len(q.ran) :
                i < j /\ q.ran[i] = "validateUserId" /\ q.ran[j] = "getUser"
    /\ q.pc = "done" /\ q.reads > 0 => q.trips = 1
    /\ q.pc = "done" => q.sent = 1
    /\ q.pc # "done" => q.sent = 0

\* Responded with no lookup, by a rejection: the filter's 403 before
\* validation, or the 400 of a failed validation.
Rejected(q) ==
    \/ q.res.status = 403 /\ LastRun(q) = "domainRestriction" /\ ~HasRun(q, "validateUserId")
    \/ q.res.status = 400 /\ HasRun(q, "validateUserId") /\ LastRun(q) = "errorHandler"

\* C20 as claimed: a store call only after validation succeeded, a response
\* to a looked-up request only after the lookup, one response, and a response
\* with no lookup only as a rejection, 403 or 400.
C20_Original ==
    \A r \in Slots :
        LET q == reqs[r]
        IN  q.path = "/users/:id" =>
                /\ RestOrder(q)
                /\ q.pc = "done" /\ q.reads = 0 => Rejected(q)

\* C20: every GET /users/:id moves received -> validated -> looked-up ->
\* responded: a store call only after validation succeeded; a response to a
\* looked-up request only after the lookup completed; once responded, nothing
\* more runs for the request; and a response with no lookup is the filter's
\* 403, the validation's 400, or, for a request whose body cannot be parsed,
\* the 500 that errorHandler sends before the filter and validation run.
C20_StateMachine ==
    /\ [](\A r \in Slots :
             LET q == reqs[r]
             IN  q.path = "/users/:id" =>
                     /\ RestOrder(q)
                     /\ q.pc = "done" /\ q.reads = 0 =>
                           \/ Rejected(q)
                           \/ /\ q.body = "malformed"
                              /\ q.res.status = 500
                              /\ q.ran = << "json", "errorHandler" >>)
    /\ [][\A r \in Slots :
             LET q == reqs[r]
                 n == reqs'[r]
             IN  q.path = "/users/:id" =>
                     /\ q.pc = "done" => n = q \/ n = Idle
                     /\ q.pc # "done" =>
                           <<Stage(q), Stage(n)>> \in
                               { <<"received", "received">>, <<"received", "validated">>,
                                 <<"received", "responded">>, <<"validated", "validated">>,
                                 <<"validated", "looked-up">>, <<"validated", "responded">>,
                                 <<"looked-up", "looked-up">>, <<"looked-up", "responded">> }
                     /\ Stage(q) = "validated" /\ Stage(n) = "responded" => n.trips = 1]_vars

\* C20 witness: a request that went through every stage, answered 200 after
\* validation and one completed lookup.
C20_Witness ==
    \E r \in Slots :
        LET q == reqs[r]
        IN  /\ q.path = "/users/:id"
            /\ q.pc = "done"
            /\ q.ran = << "json", "domainRestriction", "validateUserId", "getUser" >>
            /\ q.trips = 1
            /\ q.res.status = 200

\* ------------------------------------------------ the filter is stateless

\* The filter has decided on request q: it answered 403 or passed it on.
Decided(q) == HasRun(q, "domainRestriction")

\* C21: two requests with the same Host, Origin and Referer on which the
\* filter has decided got the same decision, whatever their path, method,
\* body and id, whatever the table holds, whichever was received first and
\* whether or not the other was still in flight.
C21_StatelessFilter ==
    \A r1 \in Slots, r2 \in Slots :
        LET p == reqs[r1]
            q == reqs[r2]
        IN  /\ Decided(p) /\ Decided(q)
            /\ p.host = q.host /\ p.origin = q.origin /\ p.referer = q.referer
            => /\ PassedFilter(p) <=> PassedFilter(q)
               /\ DeniedByFilter(p) <=> DeniedByFilter(q)

\* C21 witness: a health check and a later GraphQL query with a body, both
\* from the same denied Host, both answered 403 by the filter.
C21_Witness ==
    \E r1 \in Slots, r2 \in Slots :
        LET p == reqs[r1]
            q == reqs[r2]
        IN  /\ p.path = "/health" /\ p.body = "none" /\ p.at = 1
            /\ q.path = "/graphql" /\ q.body = "json" /\ q.at = 2
            /\ p.host = Str("evil.com") /\ q.host = p.host
            /\ DeniedByFilter(p) /\ DeniedByFilter(q)

\* ---------------------------------------------------------- the health check

\* s has the shape of Date.prototype.toISOString(): YYYY-MM-DDTHH:mm:ss.sssZ.
IsIso8601(s) ==
    /\ Len(s) = 24
    /\ SubSeq(s, 5, 5) = "-" /\ SubSeq(s, 8, 8) = "-" /\ SubSeq(s, 11, 11) = "T"
    /\ SubSeq(s, 14, 14) = ":" /\ SubSeq(s, 17, 17) = ":" /\ SubSeq(s, 20, 20) = "."
    /\ SubSeq(s, 24, 24) = "Z"

\* C22: every admitted GET /health is answered, by the health handler, with
\* status 200 and the body {status: 'healthy', timestamp: t}, t the ISO-8601
\* text of a time at which the request was being served (not before it was
\* received, not after now), and no store call is made for it.
C22_Health ==
    \A r \in Slots :
        LET q == reqs[r]
        IN  q.path = "/health" /\ q.method = "GET" /\ Admitted(q) =>
                /\ q.reads = 0 /\ q.trips = 0
                /\ q.pc = "done" =>
                      /\ LastRun(q) = "health"
                      /\ q.sent = 1
                      /\ q.res.status = 200
                      /\ DOMAIN q.res.body = {"status", "timestamp"}
                      /\ q.res.body.status = "healthy"
                      /\ IsIso8601(q.res.body.timestamp)
                      /\ \E t \in q.at..now : q.res.body.timestamp = IsoString(t)

\* C22 witness: the second request of a run, an admitted health check,
\* answered 200 with the time of that request.
C22_Witness ==
    \E r \in Slots :
        LET q == reqs[r]
        IN  /\ q.path = "/health"
            /\ Admitted(q)
            /\ q.pc = "done"
            /\ q.at = 2
            /\ q.res = [status |-> 200,
                        body |-> [status |-> "healthy",
                                  timestamp |-> "2026-01-01T00:00:02.000Z"]]

\* ------------------------------------------------------------ the User table

\* Row u has an id and a name, both strings (neither is null).
WellFormedUser(u) ==
    /\ DOMAIN u = {"id", "name"}
    /\ u.id \in STRING
    /\ u.name \in STRING

\* C23: at every moment of two seed runs, one after the other or interleaved
\* (each a deleteMany and three creates completing in any order, any of them
\* possibly failing), every row of the table has an id and a name, no two
\* rows share an id, and no create has succeeded for an id that was present:
\* such a create fails and adds nothing.
C23_UniqueUsers ==
    /\ \A u \in store : WellFormedUser(u)
    /\ \A u \in store, v \in store : u.id = v.id => u = v
    /\ \A s \in Seeders :
          /\ seed[s].dups = 0
          /\ \A u \in seed[s].made : WellFormedUser(u)

\* C23 witness: two interleaved runs; a create of the second failed on the
\* id's uniqueness because the first run's row was there, and the table
\* holds that id once.
C23_Witness ==
    \E s \in Seeders, t \in Seeders :
        /\ s # t
        /\ seed[s].pc = "failed"
        /\ seed[s].error.message = "Unique constraint failed on the fields: (id)"
        /\ [id |-> "user1", name |-> "John Doe"] \in seed[t].made
        /\ [id |-> "user1", name |-> "John Doe"] \notin seed[s].made
        /\ Cardinality({ u \in store : u.id = "user1" }) = 1

\* C24: when a run of the seed script, the only writer of the table, has
\* completed successfully, the table holds exactly user1 'John Doe', user2
\* 'Jane Smith' and user3 'Bob Wilson', whatever it held before the run and in
\* whatever order the three creates completed.
C24_SeededTable ==
    \A s \in OneSeeder :
        seed[s].pc = "done" =>
            /\ store = { [id |-> "user1", name |-> "John Doe"],
                         [id |-> "user2", name |-> "Jane Smith"],
                         [id |-> "user3", name |-> "Bob Wilson"] }
            /\ seed[s].made = store
            /\ seed[s].exit = 0

\* C24 witness: a run that found two rows of older data (another name for
\* user1 and a user9), removed them and completed.
C24_Witness ==
    /\ seed[1].pc = "done"
    /\ seed[1].deleted = 2
    /\ Cardinality(store) = 3
    /\ \A u \in store : u.id # "user9" /\ u.name # "Johnny"

\* ------------------------------------------------------ the pipeline's order

\* The positions in the stack of the layers of the given kind.
Positions(kind) == { i \in 1..Len(stack) : stack[i].kind = kind }

\* The kinds of layer that are routes.
RouteKinds == {"swaggerUi", "validateUserId", "getUser", "health", "apollo"}

\* C25 as claimed: in the running server the stack is json(), then
\* domainRestriction, then the routes, then errorHandler last: every route
\* layer, those of /graphql included, comes before errorHandler.
C25_ErrorHandlerLast ==
    listening =>
        /\ stack[1].kind = "json"
        /\ stack[2].kind = "domainRestriction"
        /\ Positions("errorHandler") # {}
        /\ \A e \in Positions("errorHandler") :
              /\ e = Len(stack)
              /\ \A k \in RouteKinds : \A i \in Positions(k) : i < e
        /\ Positions("apollo") # {}

\* ------------------------------------------------------------ absent headers

\* Header v is present and has text.
Present(v) == v.t = "string" /\ v.s # ""

InFlight(r) == reqs[r].pc \notin {"idle", "done"}

\* C27: every request the listening server has received is eventually
\* answered, given that a ready handler runs and a store call returns or
\* fails: through JSON parsing, admission, validation, lookup, not-found and
\* error handling, on either surface.
C27_EveryRequestAnswered ==
    \A r \in Slots : InFlight(r) ~> (reqs[r].pc = "done" /\ reqs[r].sent = 1)

\* C27 witness: the second request of a run, a REST lookup whose store call
\* failed, answered by errorHandler.
C27_Witness ==
    \E r \in Slots :
        /\ RestStoreFailed(reqs[r])
        /\ reqs[r].at = 2
        /\ reqs[r].pc = "done"
        /\ LastRun(reqs[r]) = "errorHandler"
        /\ reqs[r].res.status = 500

\* ------------------------------------------------- one response per request

\* In the step from q to n the stage sent the response and did not call next.
Responds(q, n) == n.sent = q.sent + 1 /\ n.pc = "done" /\ n.idx = q.idx

\* In the step from q to n the stage called next and sent nothing.
PassesOn(q, n) == n.sent = q.sent /\ n.pc = "run" /\ n.idx > q.idx /\ n.res = q.res

\* Request q is at a stage that completes in its next step: one of the three
\* middleware, or the /users/:id handler resuming from its await.
AtStage(q) ==
    \/ q.pc = "awaitStore"
    \/ /\ q.pc = "run"
       /\ q.idx \in 1..Len(stack)
       /\ stack[q.idx].kind \in {"domainRestriction", "validateUserId", "errorHandler"}

\* C28: no request is ever sent two responses, and every completed stage
\* (domainRestriction, validateUserId, the /users/:id handler, errorHandler)
\* did exactly one of sending the response and calling next, on the found,
\* not-found and store-failure paths alike.
C28_OneResponse ==
    /\ [](\A r \in Slots : reqs[r].sent <= 1 /\ (reqs[r].pc = "done" <=> reqs[r].sent = 1))
    /\ [][\A r \in Slots :
             LET q == reqs[r]
                 n == reqs'[r]
             IN  AtStage(q) /\ n # q =>
                     /\ Responds(q, n) \/ PassesOn(q, n)
                     /\ ~(Responds(q, n) /\ PassesOn(q, n))]_vars

\* C28 witness: a lookup of a missing id answered 404 once, after the filter
\* and the validation each called next.
C28_Witness ==
    \E r \in Slots :
        LET q == reqs[r]
        IN  /\ q.pc = "done"
            /\ q.ran = << "json", "domainRestriction", "validateUserId", "getUser" >>
            /\ q.res.status = 404
            /\ q.sent = 1

\* ------------------------------------------------------ bootstrap ordering

\* The steps of bootstrap() in the order it takes them, and the exit.
BootSteps ==
    { <<"start", "created">>, <<"created", "started">>, <<"started", "mounted">>,
      <<"mounted", "listening">>, <<"created", "exited">>, <<"mounted", "exited">> }

\* /graphql is mounted on the handle: json(), domainRestriction and the Apollo
\* middleware, in that order, after the App's own layers.
GraphqlMounted ==
    /\ Len(stack) >= 3
    /\ SubSeq(stack, Len(stack) - 2, Len(stack)) =
          << [path |-> "/graphql", method |-> "ANY", kind |-> "json"],
             [path |-> "/graphql", method |-> "ANY", kind |-> "domainRestriction"],
             [path |-> "/graphql", method |-> "ANY", kind |-> "apollo"] >>

\* C29: the server listens only once the App is constructed, Apollo has
\* started and /graphql is mounted, in that order, so every request is
\* received with /graphql mounted; when Apollo's start or the listen fails
\* the process exits with code 1, it never listens and receives no request,
\* and nothing follows the exit.
C29_BootstrapOrder ==
    /\ [](listening =>
             /\ boot = "listening"
             /\ instance # "undefined" /\ constructed = 1
             /\ GraphqlMounted
             /\ exitCode = -1)
    /\ [](\A r \in Slots : (reqs[r].pc # "idle" \/ now > 0) => listening /\ GraphqlMounted)
    /\ [](boot = "exited" <=> exitCode = 1)
    /\ [](boot = "exited" => ~listening /\ now = 0)
    /\ [](boot \in {"started", "mounted"} => instance # "undefined" /\ ~listening)
    /\ [](boot = "mounted" => GraphqlMounted)
    /\ [][boot' # boot => <<boot, boot'>> \in BootSteps]_vars
    /\ [][boot = "exited" => UNCHANGED vars]_vars

\* C29 witness: the server listening after the whole bootstrap, a /graphql
\* query received and answered through the mounted route.
C29_Witness ==
    /\ boot = "listening"
    /\ listening
    /\ GraphqlMounted
    /\ \E r \in Slots :
          reqs[r].path = "/graphql" /\ reqs[r].pc = "done" /\ LastRun(reqs[r]) = "apollo"

\* ------------------------------------------------- the two surfaces agree

\* p is an answered GET /users/:id and q an answered GraphQL query for the
\* same id, both admitted, the store having answered the lookup of each.
SameIdBothSurfaces(p, q) ==
    /\ p.path = "/users/:id" /\ q.path = "/graphql"
    /\ p.pc = "done" /\ q.pc = "done"
    /\ Admitted(p) /\ Admitted(q)
    /\ p.id = q.id
    /\ p.failure = "" /\ q.failure = ""

\* The GraphQL response carries data.user and no error.
HasData(q) == DOMAIN q.res.body = {"data"}

\* C30: for an admitted GET /users/:id and an admitted GraphQL query with the
\* same id, against the same table: the GET answers 200 with body u exactly
\* when the query answers data.user = u, the GET answers 404 exactly when
\* the query answers data.user = null, and the GET is rejected as invalid
\* (400) exactly when the query is (error 'Invalid user ID provided'); both
\* make the same number of store calls.
C30_SurfacesAgree ==
    \A r1 \in Slots, r2 \in Slots :
        LET p == reqs[r1]
            q == reqs[r2]
        IN  SameIdBothSurfaces(p, q) =>
                /\ p.res.status \in {200, 404, 400}
                /\ p.res.status = 200 <=> (HasData(q) /\ q.res.body.data.user # Null)
                /\ p.res.status = 200 => q.res.body.data.user = p.res.body
                /\ p.res.status = 404 <=> (HasData(q) /\ q.res.body.data.user = Null)
                /\ p.res.status = 400 <=> RejectedAsInvalid(q)
                /\ RejectedAsInvalid(p) <=> RejectedAsInvalid(q)
                /\ ValidIdRule(p.id) <=> HasData(q)
                /\ p.reads = q.reads

\* C30 witness: user1 asked on both surfaces, overlapping, against the seeded
\* table: 200 with the user and data.user the same user.
C30_Witness ==
    \E r1 \in Slots, r2 \in Slots :
        LET p == reqs[r1]
            q == reqs[r2]
        IN  /\ SameIdBothSurfaces(p, q)
            /\ store = SeedUsers
            /\ p.id = Str("user1")
            /\ p.res = [status |-> 200, body |-> [id |-> "user1", name |-> "John Doe"]]
            /\ q.res = [status |-> 200,
                        body |-> [data |-> [user |-> [id |-> "user1", name |-> "John Doe"]]]]

====
